---- MODULE Spec2Model ----
(***************************************************************************)
(* Model of public/images/characters/convert.py: a script that walks the   *)
(* dict rename_map in insertion order and, for every (old_name, new_name), *)
(* renames base_dir/old_name to base_dir/new_name when the source exists   *)
(* and prints "Renamed: ..." afterwards, or prints "Missing: ..." when it  *)
(* does not.  The base directory is modelled as a map from file names to   *)
(* contents; every statement of the loop body is one action.               *)
(***************************************************************************)
EXTENDS Integers, Sequences, FiniteSets

\* ---------------------------------------------------------------- bounds
\* Largest number of entries of a rename_map the model enumerates.
MaxEntries == 2
\* Number of times the script is started one after the other.
MaxRuns == 2

\* ------------------------------------------------------- names and values
\* The two file names of the rename_map literal of the script.
SourceOldName == "ANewViewforThomaspromo4.webp"
SourceNewName == "show_thomas_harold-percy-thomas_01.webp"
\* A third file name of the base directory.
OtherName == "other.webp"

Names == {SourceOldName, SourceNewName, OtherName}

\* What a directory entry holds; Absent marks a name with no entry.
Contents == {"img1", "img2"}
Absent == "absent"

\* os.rename replaces an existing destination file on POSIX and raises
\* FileExistsError on Windows.
Platforms == {"posix", "nt"}

\* The rename_map literal of the script.
RepoRenameMap == << <<SourceOldName, SourceNewName>> >>

\* A dict is a sequence of (key, value) pairs in insertion order whose keys
\* are pairwise different.
UniqueKeys(m) == \A j, k \in DOMAIN m : j # k => m[j][1] # m[k][1]

Mappings ==
  UNION { {m \in [1..n -> Names \X Names] : UniqueKeys(m)} : n \in 0..MaxEntries }

VARIABLES
  rename_map,  \* the dict walked by the loop
  platform,    \* the platform whose os.rename the script calls
  fs,          \* the base directory: name -> content or Absent
  i,           \* index of the entry the loop is at (0 before the first)
  pc,          \* the statement about to be executed, or how the run ended
  out,         \* the lines printed to standard output by the current run
  run,         \* the number of the current run
  fs0,         \* the base directory as it stood when the current run started
  events,      \* what the current run has executed so far, in order
  history      \* the earlier runs in order: how each ended and what it printed

vars == <<rename_map, platform, fs, i, pc, out, run, fs0, events, history>>

\* ------------------------------------------------------ pure operations
old_name(k) == rename_map[k][1]
new_name(k) == rename_map[k][2]

\* Path.exists() of base_dir / name.
Exists(f, name) == f[name] # Absent

\* A rename with its arguments exchanged: new_path.rename(old_path).
OsRenameSwapped(f, old, new) ==
  IF old = new THEN f ELSE [f EXCEPT ![old] = f[new], ![new] = Absent]

\* A copy in place of a move: the source entry stays.
OsRenameCopy(f, old, new) == [f EXCEPT ![new] = f[old]]

\* The directory after a successful os.rename of base_dir/old to base_dir/new.
OsRename(f, old, new) ==
  IF old = new THEN f ELSE [f EXCEPT ![new] = f[old], ![old] = Absent]

\* Whether os.rename can succeed: Windows refuses an existing destination.
RenameCanSucceed(plat, f, old, new) ==
  plat = "posix" \/ old = new \/ ~Exists(f, new)

\* The two names in the wrong places of the format string.
RenamedLineSwapped(old, new) == <<"Renamed: ", new, " -> ", old>>

\* f"Renamed: {old_name} -> {new_name}"
RenamedLine(old, new) == <<"Renamed: ", old, " -> ", new>>

\* f"Missing: {old_name}"
MissingLine(old) == <<"Missing: ", old>>

Ended == pc \in {"done", "failed"}

\* ---------------------------------------------------------------- Init
Init ==
  /\ rename_map \in Mappings
  /\ platform \in Platforms
  /\ fs \in [Names -> Contents \cup {Absent}]
  /\ i = 0
  /\ pc = "for"
  /\ out = <<>>
  /\ run = 1
  /\ fs0 = fs
  /\ events = <<>>
  /\ history = <<>>

\* -------------------------------------------------------------- actions
\* The entries are taken in no particular order, as from an unordered table.
ForNextUnordered ==
  /\ pc = "for"
  /\ \E k \in DOMAIN rename_map :
       /\ \A p \in DOMAIN events : events[p][2] # k
       /\ i' = k
  /\ pc' = "if"
  /\ UNCHANGED <<rename_map, platform, fs, out, run, fs0, events, history>>

\* for old_name, new_name in rename_map.items(): the next entry is taken.
ForNext ==
  /\ pc = "for"
  /\ i < Len(rename_map)
  /\ i' = i + 1
  /\ pc' = "if"
  /\ UNCHANGED <<rename_map, platform, fs, out, run, fs0, events, history>>

\* The dict is exhausted: the script ends and the process exits with status 0.
ForExit ==
  /\ pc = "for"
  /\ i >= Len(rename_map)
  /\ pc' = "done"
  /\ UNCHANGED <<rename_map, platform, fs, i, out, run, fs0, events, history>>

\* The existence of the sources is decided on the directory as it stood
\* when the run started.
IfExistsAtStart ==
  /\ pc = "if"
  /\ IF Exists(fs0, old_name(i))
       THEN /\ pc' = "rename"
            /\ events' = Append(events, <<"exists", i>>)
       ELSE /\ pc' = "print_missing"
            /\ events' = Append(events, <<"absent", i>>)
  /\ UNCHANGED <<rename_map, platform, fs, i, out, run, fs0, history>>

\* if old_path.exists():
IfExists ==
  /\ pc = "if"
  /\ IF Exists(fs, old_name(i))
       THEN /\ pc' = "rename"
            /\ events' = Append(events, <<"exists", i>>)
       ELSE /\ pc' = "print_missing"
            /\ events' = Append(events, <<"absent", i>>)
  /\ UNCHANGED <<rename_map, platform, fs, i, out, run, fs0, history>>

\* old_path.rename(new_path) returns.
RenameOk ==
  /\ pc = "rename"
  /\ RenameCanSucceed(platform, fs, old_name(i), new_name(i))
  /\ fs' = OsRename(fs, old_name(i), new_name(i))
  /\ pc' = "print_renamed"
  /\ events' = Append(events, <<"renamed", i>>)
  /\ UNCHANGED <<rename_map, platform, i, out, run, fs0, history>>

\* The error of a failed rename is swallowed and the loop goes on.
RenameFailContinue ==
  /\ pc = "rename"
  /\ pc' = "for"
  /\ events' = Append(events, <<"rename_failed", i>>)
  /\ UNCHANGED <<rename_map, platform, fs, i, out, run, fs0, history>>

\* The success line is printed although the rename raised.
RenameFailPrints ==
  /\ pc = "rename"
  /\ pc' = "failed"
  /\ out' = Append(out, RenamedLine(old_name(i), new_name(i)))
  /\ events' = Append(events, <<"rename_failed", i>>)
  /\ UNCHANGED <<rename_map, platform, fs, i, run, fs0, history>>

\* old_path.rename(new_path) raises OSError (permission denied, destination
\* exists on Windows, I/O error): nothing catches it, the traceback goes to
\* standard error and the process exits with a non-zero status.
RenameFail ==
  /\ pc = "rename"
  /\ pc' = "failed"
  /\ events' = Append(events, <<"rename_failed", i>>)
  /\ UNCHANGED <<rename_map, platform, fs, i, out, run, fs0, history>>

\* print(f"Renamed: {old_name} -> {new_name}")
PrintRenamed ==
  /\ pc = "print_renamed"
  /\ out' = Append(out, RenamedLine(old_name(i), new_name(i)))
  /\ pc' = "for"
  /\ events' = Append(events, <<"printed", i>>)
  /\ UNCHANGED <<rename_map, platform, fs, i, run, fs0, history>>

\* A missing source ends the loop.
PrintMissingBreak ==
  /\ pc = "print_missing"
  /\ out' = Append(out, MissingLine(old_name(i)))
  /\ pc' = "done"
  /\ events' = Append(events, <<"printed", i>>)
  /\ UNCHANGED <<rename_map, platform, fs, i, run, fs0, history>>

\* A missing source for which the destination is created all the same.
PrintMissingTouch ==
  /\ pc = "print_missing"
  /\ out' = Append(out, MissingLine(old_name(i)))
  /\ fs' = [fs EXCEPT ![new_name(i)] = "img1"]
  /\ pc' = "for"
  /\ events' = Append(events, <<"printed", i>>)
  /\ UNCHANGED <<rename_map, platform, i, run, fs0, history>>

\* print(f"Missing: {old_name}")
PrintMissing ==
  /\ pc = "print_missing"
  /\ out' = Append(out, MissingLine(old_name(i)))
  /\ pc' = "for"
  /\ events' = Append(events, <<"printed", i>>)
  /\ UNCHANGED <<rename_map, platform, fs, i, run, fs0, history>>

\* The script is started again on the directory the ended run left.
Rerun ==
  /\ Ended
  /\ run < MaxRuns
  /\ run' = run + 1
  /\ history' = Append(history, [exit |-> pc, out |-> out])
  /\ i' = 0
  /\ pc' = "for"
  /\ out' = <<>>
  /\ events' = <<>>
  /\ fs0' = fs
  /\ UNCHANGED <<rename_map, platform, fs>>

\* One statement of the running script.
Step ==
  \/ ForNext
  \/ ForExit
  \/ IfExists
  \/ RenameOk
  \/ RenameFail
  \/ PrintRenamed
  \/ PrintMissing

Next ==
  \/ ForNext
  \/ ForExit
  \/ IfExists
  \/ RenameOk
  \/ RenameFail
  \/ PrintRenamed
  \/ PrintMissing
  \/ Rerun

Spec == Init /\ [][Next]_vars

\* The script is sequential and every call it makes returns or raises, so a
\* statement that can be executed is executed.
FairSpec == Spec /\ WF_vars(Step)

\* ------------------------------------------------------ claim vocabulary
Entries == DOMAIN rename_map

InEvents(e) == \E p \in DOMAIN events : events[p] = e

Present(f) == {n \in Names : f[n] # Absent}

\* Entry k is the only one to touch its source before it is processed and
\* nothing touches its source or destination afterwards.
Undisturbed(k) ==
  /\ rename_map[k][1] # rename_map[k][2]
  /\ \A j \in Entries \ {k} :
       /\ rename_map[j][2] # rename_map[k][1]
       /\ j > k => /\ rename_map[j][1] # rename_map[k][2]
                   /\ rename_map[j][2] # rename_map[k][2]

\* No entry's new_name is the old_name of itself or of an earlier entry.
NoFeedback ==
  \A j, k \in Entries : j >= k => rename_map[j][2] # rename_map[k][1]

AllMissing == [k \in 1..Len(rename_map) |-> <<"Missing: ", rename_map[k][1]>>]

C2_Original ==
  pc = "done" =>
    \A k \in Entries :
      InEvents(<<"absent", k>>) =>
        /\ fs[rename_map[k][1]] = Absent
        /\ fs[rename_map[k][2]] = Absent
        /\ \E p \in DOMAIN out : out[p] = <<"Missing: ", rename_map[k][1]>>

\* C2 amended: processing an entry whose source does not exist when it is
\* checked changes nothing in the directory (nothing is created; what was at
\* the destination stays) and prints "Missing: <old_name>" for it.
C2_Amended ==
  [][ /\ (pc = "if" /\ fs[rename_map[i][1]] = Absent) =>
           (fs' = fs /\ out' = out /\ pc' = "print_missing" /\ i' = i)
      /\ pc = "print_missing" =>
           /\ fs[rename_map[i][1]] = Absent
           /\ fs' = fs
           /\ out' = Append(out, <<"Missing: ", rename_map[i][1]>>)
           /\ pc' = "for" ]_vars

\* A Missing line has been printed for an entry whose destination exists.
C2_Witness ==
  /\ pc = "for"
  /\ i >= 1
  /\ Len(out) = i
  /\ out[i] = <<"Missing: ", rename_map[i][1]>>
  /\ fs[rename_map[i][2]] # Absent

IsCheck(e) == e[1] \in {"exists", "absent"}

\* C4: entries are processed in the order of the mapping and the output
\* lines appear in that order: when the existence of entry k is checked,
\* every earlier entry j has been checked, renamed if its source existed and
\* reported, and nothing of j happens afterwards; line p of the output is
\* about entry p.
C4_Order ==
  /\ \A q \in DOMAIN events :
       IsCheck(events[q]) =>
         \A j \in 1..(events[q][2] - 1) :
           /\ \E p \in 1..(q - 1) : IsCheck(events[p]) /\ events[p][2] = j
           /\ \E p \in 1..(q - 1) : events[p] = <<"printed", j>>
           /\ InEvents(<<"exists", j>>) =>
                \E p \in 1..(q - 1) : events[p] = <<"renamed", j>>
           /\ \A p \in DOMAIN events : p > q => events[p][2] # j
  /\ \A p \in DOMAIN out : out[p][2] = rename_map[p][1]

\* The second of two entries has been checked, renamed and reported.
C4_Witness ==
  /\ Len(rename_map) >= 2
  /\ InEvents(<<"printed", 1>>)
  /\ InEvents(<<"renamed", 2>>)
  /\ InEvents(<<"printed", 2>>)

\* ------------------------------------------------------------------- C5
\* C5: a run in which no rename fails prints exactly one line per entry:
\* "Renamed: <old> -> <new>" exactly when the source existed when it was
\* checked, "Missing: <old>" exactly when it did not.
C5_OneLinePerEntry ==
  pc = "done" =>
    /\ Len(out) = Len(rename_map)
    /\ \A k \in Entries :
         /\ InEvents(<<"exists", k>>) # InEvents(<<"absent", k>>)
         /\ InEvents(<<"exists", k>>) <=>
              out[k] = <<"Renamed: ", rename_map[k][1], " -> ", rename_map[k][2]>>
         /\ InEvents(<<"absent", k>>) <=>
              out[k] = <<"Missing: ", rename_map[k][1]>>

\* A completed run that printed one line of each kind.
C5_Witness ==
  /\ pc = "done"
  /\ Len(out) >= 2
  /\ \E j, k \in DOMAIN out : out[j][1] = "Renamed: " /\ out[k][1] = "Missing: "

\* ------------------------------------------------------------------- C6
\* C6: a failed rename ends the run at once in a failed state: nothing is
\* executed after it, the failing entry and the later ones print nothing,
\* and the failing step leaves the directory as the earlier renames made it.
C6_FailStops ==
  /\ [](\A p \in DOMAIN events :
          events[p][1] = "rename_failed" =>
            /\ p = Len(events)
            /\ pc = "failed"
            /\ i = events[p][2]
            /\ Len(out) = events[p][2] - 1)
  /\ [][ /\ (pc' = "failed" /\ pc # "failed") =>
              (fs' = fs /\ out' = out /\ i' = i)
         /\ pc = "failed" => run' = run + 1 ]_vars

\* The second entry's rename failed after the first entry was renamed.
C6_Witness ==
  /\ pc = "failed"
  /\ i = 2
  /\ InEvents(<<"renamed", 1>>)
  /\ fs # fs0

\* ------------------------------------------------------------------- C7
\* C7: every run terminates; it ends with success only after every entry
\* has been checked and reported; it fails only in the rename of an entry
\* whose source existed, so a missing source never fails the run nor stops
\* the later entries.
C7_Terminates ==
  /\ []<>Ended
  /\ [](pc = "done" =>
          /\ i = Len(rename_map)
          /\ \A k \in Entries : InEvents(<<"printed", k>>))
  /\ [](pc = "failed" => InEvents(<<"exists", i>>))
  /\ [][pc = "print_missing" => pc' = "for"]_vars

\* A run of at least two entries completed with every source missing.
C7_Witness ==
  /\ pc = "done"
  /\ Len(rename_map) >= 2
  /\ out = AllMissing

\* ------------------------------------------------------------------- C8
\* C8: a "Renamed" line for an entry is in the output only when the rename
\* of that entry has been performed, no line of an entry is printed before
\* its rename returns, and an entry whose rename failed has no line.
C8_RenamedAfterRename ==
  /\ \A p \in DOMAIN out :
       out[p][1] = "Renamed: " =>
         \E q \in DOMAIN events :
           /\ events[q] = <<"renamed", p>>
           /\ \E r \in DOMAIN events : r > q /\ events[r] = <<"printed", p>>
  /\ pc \in {"if", "rename", "print_renamed"} => Len(out) = i - 1
  /\ \A q \in DOMAIN events :
       events[q][1] = "rename_failed" => Len(out) < events[q][2]

\* One entry has its Renamed line and the rename of the next one failed.
C8_Witness ==
  /\ pc = "failed"
  /\ Len(out) = 1
  /\ out[1][1] = "Renamed: "

\* ------------------------------------------------------------------- C9
MappedNames == {rename_map[k][1] : k \in Entries} \cup {rename_map[k][2] : k \in Entries}

\* C9: a name that is neither old_name nor new_name of an entry keeps its
\* entry and content in every state of the run; the run creates no content,
\* and the number of entries of the directory never exceeds the number at
\* the start of the run.
C9_Frame ==
  /\ \A n \in Names \ MappedNames : fs[n] = fs0[n]
  /\ \A n \in Present(fs) : \E m \in Present(fs0) : fs[n] = fs0[m]
  /\ Cardinality(Present(fs)) <= Cardinality(Present(fs0))

\* A rename has replaced an existing destination while a file outside the
\* mapping is present.
C9_Witness ==
  /\ \E n \in Names \ MappedNames : fs[n] # Absent
  /\ \E k \in Entries : InEvents(<<"renamed", k>>)
  /\ Cardinality(Present(fs)) < Cardinality(Present(fs0))

\* ------------------------------------------------------------------ C10
\* C10: the existence check sees the directory as the earlier entries left
\* it: an entry is renamed only when its source is there at that moment and
\* reported missing only when it is not; for the chain a->b, b->c with only
\* a present, a completed run ends with the content at c, neither a nor b
\* existing and two Renamed lines.
C10_Chain ==
  /\ pc = "rename" => fs[rename_map[i][1]] # Absent
  /\ pc = "print_missing" => fs[rename_map[i][1]] = Absent
  /\ \A a, b, c \in Names :
       ( /\ a # b /\ b # c /\ a # c
         /\ rename_map = << <<a, b>>, <<b, c>> >>
         /\ Present(fs0) = {a}
         /\ pc = "done" ) =>
           /\ fs[c] = fs0[a]
           /\ fs[a] = Absent
           /\ fs[b] = Absent
           /\ out = << <<"Renamed: ", a, " -> ", b>>, <<"Renamed: ", b, " -> ", c>> >>

\* The chain a->b, b->c has completed on a directory that held only a.
C10_Witness ==
  /\ pc = "done"
  /\ Len(rename_map) = 2
  /\ rename_map[1][2] = rename_map[2][1]
  /\ rename_map[1][1] # rename_map[1][2]
  /\ rename_map[2][2] \notin {rename_map[1][1], rename_map[1][2]}
  /\ Present(fs0) = {rename_map[1][1]}
  /\ Len(out) = 2

TypeOK ==
  /\ RepoRenameMap \in Mappings
  /\ rename_map \in Mappings
  /\ platform \in Platforms
  /\ fs \in [Names -> Contents \cup {Absent}]
  /\ i \in 0..Len(rename_map)
  /\ pc \in {"for", "if", "rename", "print_renamed", "print_missing", "done", "failed"}
  /\ run \in 1..MaxRuns
  /\ Len(out) <= Len(rename_map)
  /\ Len(history) = run - 1
====
